---------------------------- MODULE Spec2Model ----------------------------
(***************************************************************************)
(* A model of the fork-based revision of the subprocess library            *)
(* (src/include/subprocess/subprocess.hpp): descriptors, posix_process,    *)
(* command and its operators, together with the part of the operating      *)
(* system the library talks to (descriptor tables, pipes, child            *)
(* processes).                                                              *)
(*                                                                         *)
(* The host program is single threaded.  It builds one command object      *)
(* (cmd) and at most one temporary command (other) with the library's      *)
(* operators and then calls run() or run(std::nothrow).  Children run      *)
(* concurrently with the host and with each other.                         *)
(***************************************************************************)
EXTENDS Integers, Sequences, FiniteSets, TLC

(***************************************************************************)
(* Bounds of the model.                                                    *)
(***************************************************************************)
MaxProcs == 2       \* processes of a pipeline that is run
MaxBuild == 3       \* processes of a pipeline that is only built
MaxOps   == 2       \* redirection operators applied before run()
MaxByte  == 1       \* bytes are 0 .. MaxByte, 0 is NUL
MaxOut   == 3       \* longest output a finite writer produces
MaxPipes == 2       \* pipes the host creates by hand
MaxRuns == 2        \* calls of run() on one command
MaxFd    == 8       \* descriptor numbers are 0 .. MaxFd
PipeCap  == 2       \* bytes an OS pipe holds before a writer blocks

(***************************************************************************)
(* Program constants.                                                      *)
(***************************************************************************)
STDIN_FILENO    == 0
STDOUT_FILENO   == 1
STDERR_FILENO   == 2
max_standard_fd == 3        \* the enumerator after standard_error
BufSize         == 2048     \* static char buf[2048]

Byte  == 0 .. MaxByte
Fds   == 0 .. MaxFd

RECURSIVE SeqsUpTo(_, _)
SeqsUpTo(S, n) ==
    IF n = 0 THEN {<<>>}
    ELSE LET shorter == SeqsUpTo(S, n - 1)
         IN  shorter \cup {Append(s, b) : s \in {t \in shorter : Len(t) = n - 1}, b \in S}

(***************************************************************************)
(* Open file descriptions, as the kernel sees them.  kind is one of        *)
(* "closed", "std" (one of the host's three standard streams), "host" (a   *)
(* descriptor the host program holds for its own purposes), "pipe_r",      *)
(* "pipe_w" (id is the pipe) and "file" (id is the path, mode the open     *)
(* flags).                                                                 *)
(***************************************************************************)
Obj(kind, id, mode) == [kind |-> kind, id |-> id, mode |-> mode]
Closed == Obj("closed", 0, "")

FreeFds(fdt) == {k \in Fds : fdt[k] = Closed}

\* The kernel hands out the lowest free descriptor number.
LowestFree(fdt) == CHOOSE k \in FreeFds(fdt) : \A j \in FreeFds(fdt) : k <= j

\* ::close(fd): EBADF (no effect) when fd is not an open descriptor.
sys_close(fdt, fd) == IF fd \in Fds THEN [fdt EXCEPT ![fd] = Closed] ELSE fdt

\* ::dup2(from, to): no effect when from is not open (EBADF).
sys_dup2(fdt, from, to) ==
    IF from \in Fds /\ fdt[from] # Closed /\ to \in Fds
    THEN [fdt EXCEPT ![to] = fdt[from]]
    ELSE fdt

(***************************************************************************)
(* class descriptor.  linked_fd_ is a raw pointer; the model keeps the     *)
(* name of the object it points at.  The only objects ever linked are the  *)
(* two locals of create_pipe(), which are dead once create_pipe() has      *)
(* returned.                                                               *)
(***************************************************************************)
NoPath == "nopath"
Null   == "nullptr"

descriptor(fd) == [fd_ |-> fd, file_path_ |-> NoPath, linked_fd_ |-> Null]

in  == descriptor(STDIN_FILENO)
out == descriptor(STDOUT_FILENO)
err == descriptor(STDERR_FILENO)

linked(d) == d.linked_fd_ # Null

ClosesHandle(fd) == fd > max_standard_fd

\* descriptor::close(): the state of the descriptor object afterwards ...
close_desc(d) == IF ClosesHandle(d.fd_) THEN [d EXCEPT !.file_path_ = NoPath] ELSE d
\* ... and the descriptor table afterwards.
close(d, fdt) == IF ClosesHandle(d.fd_) THEN sys_close(fdt, d.fd_) ELSE fdt

\* ~descriptor(): if (file_path_) close();
destroy(d, fdt) == IF d.file_path_ # NoPath THEN close(d, fdt) ELSE fdt

\* descriptor::open(file_name, flags)
open(fdt, path, flags) ==
    LET fd == LowestFree(fdt)
    IN  [fd  |-> [fd_ |-> fd, file_path_ |-> path, linked_fd_ |-> Null],
         fdt |-> [fdt EXCEPT ![fd] = Obj("file", 0, flags)]]

\* The lambda link_fds(linking_fd, linked_fd) of link(): it throws
\* usage_error when linking_fd is linked already and sets its pointer
\* otherwise.
link_fds(linking_fd, linked_name) ==
    IF linked(linking_fd)
    THEN [threw |-> TRUE, fd |-> linking_fd]
    ELSE [threw |-> FALSE, fd |-> [linking_fd EXCEPT !.linked_fd_ = linked_name]]

\* void link(descriptor& fd1, descriptor& fd2): link_fds(fd1, fd2) and then
\* link_fds(fd2, fd1); name1 and name2 are the two objects.  When the two
\* are the same object the second call sees what the first one did.
link(fd1, fd2, name1, name2) ==
    LET r1 == link_fds(fd1, name2)
    IN  IF r1.threw THEN [threw |-> TRUE, fd1 |-> fd1, fd2 |-> fd2]
        ELSE LET r2 == link_fds(IF name1 = name2 THEN r1.fd ELSE fd2, name1)
             IN  [threw |-> r2.threw, fd1 |-> IF name1 = name2 THEN r2.fd ELSE r1.fd,
                  fd2 |-> r2.fd]

\* descriptor::create_pipe(): ::pipe() takes the two lowest free numbers,
\* the read end first.  The returned descriptors are moved out of the
\* locals, so their linked_fd_ point at the dead locals.
create_pipe(fdt, pipes) ==
    LET r    == LowestFree(fdt)
        fdt1 == [fdt EXCEPT ![r] = Obj("pipe_r", Len(pipes) + 1, "")]
        w    == LowestFree(fdt1)
        fdt2 == [fdt1 EXCEPT ![w] = Obj("pipe_w", Len(pipes) + 1, "")]
        lk   == link(descriptor(r), descriptor(w),
                     "create_pipe::read_fd", "create_pipe::write_fd")
    IN  [read_fd |-> lk.fd1, write_fd |-> lk.fd2,
         fdt |-> fdt2, pipes |-> Append(pipes, <<>>)]

CanPipe(fdt) == Cardinality(FreeFds(fdt)) >= 2
CanOpen(fdt) == FreeFds(fdt) # {}


(***************************************************************************)
(* class posix_process and class command.  pid_ = 0 stands for an empty    *)
(* std::optional<int>.  A capture binding is the optional pair (read end,  *)
(* reference to the caller's string); second names the caller's variable.  *)
(***************************************************************************)
posix_process(c) ==
    [cmd_ |-> c, stdin_fd |-> in, stdout_fd |-> out, stderr_fd |-> err, pid_ |-> 0]

NoCapture == [has |-> FALSE, first |-> descriptor(-1), second |-> ""]
Capture(d, v) == [has |-> TRUE, first |-> d, second |-> v]

command(c) ==
    [processes |-> <<posix_process(c)>>,
     captured_stdout |-> NoCapture, captured_stderr |-> NoCapture]

NoCommand ==
    [processes |-> <<>>, captured_stdout |-> NoCapture, captured_stderr |-> NoCapture]

front(c) == c.processes[1]
back(c)  == c.processes[Len(c.processes)]

\* std::optional::reset() and the assignment of a new pair destroy the
\* descriptor the binding held.
drop_capture(cap, fdt) == IF cap.has THEN destroy(cap.first, fdt) ELSE fdt

\* The result of an operator: the command, the descriptor table, the pipes
\* and whether the host is left blocked inside the operator.
Res(c, fdt, pipes, blocked) ==
    [cmd |-> c, fdt |-> fdt, pipes |-> pipes, blocked |-> blocked]

\* Not the code's operator>: a pending stdout binding is kept.
redirect_out_keeps_binding(c, fd, fdt, pipes) ==
    LET n   == Len(c.processes)
        old == c.processes[n].stdout_fd
    IN  Res([c EXCEPT !.processes[n].stdout_fd = fd],
            destroy(old, fdt), pipes, FALSE)

\* command& operator>(command& cmd, descriptor fd)
redirect_out(c, fd, fdt, pipes) ==
    LET n    == Len(c.processes)
        old  == c.processes[n].stdout_fd
        fdt1 == drop_capture(c.captured_stdout, fdt)
    IN  Res([c EXCEPT !.captured_stdout = NoCapture,
                      !.processes[n].stdout_fd = fd],
            destroy(old, fdt1), pipes, FALSE)

\* command& operator>=(command& cmd, descriptor fd)
redirect_err(c, fd, fdt, pipes) ==
    LET n   == Len(c.processes)
        old == c.processes[n].stderr_fd
    IN  Res([c EXCEPT !.processes[n].stderr_fd = fd],
            destroy(old, fdt), pipes, FALSE)

\* command& operator<(command& cmd, descriptor fd)
redirect_in(c, fd, fdt, pipes) ==
    LET old == c.processes[1].stdin_fd
    IN  Res([c EXCEPT !.processes[1].stdin_fd = fd],
            destroy(old, fdt), pipes, FALSE)

\* command& operator>(command& cmd, std::string& output)
capture_out(c, v, fdt, pipes) ==
    LET p == create_pipe(fdt, pipes)
        r == redirect_out(c, p.write_fd, p.fdt, p.pipes)
    IN  Res([r.cmd EXCEPT !.captured_stdout = Capture(p.read_fd, v)],
            drop_capture(r.cmd.captured_stdout, r.fdt), r.pipes, FALSE)

\* command& operator>=(command& cmd, std::string& output): the write end
\* is handed to operator> (not operator>=).
capture_err(c, v, fdt, pipes) ==
    LET p == create_pipe(fdt, pipes)
        r == redirect_out(c, p.write_fd, p.fdt, p.pipes)
    IN  Res([r.cmd EXCEPT !.captured_stderr = Capture(p.read_fd, v)],
            drop_capture(r.cmd.captured_stderr, r.fdt), r.pipes, FALSE)

\* Not the kernel's ::write(): it returns however much the pipe holds.
WriteAlwaysFits(pipes, id, input) == TRUE

\* descriptor::write(input) on a pipe nobody reads yet: ::write() returns
\* once all bytes are in the pipe and blocks for ever when they do not fit.
WriteFits(pipes, id, input) == Len(pipes[id]) + Len(input) <= PipeCap

\* Not the code's operator<: write_fd.close() is left out.
feed_in_keeps_write_end(c, input, fdt, pipes) ==
    LET p  == create_pipe(fdt, pipes)
        r  == redirect_in(c, p.read_fd, p.fdt, p.pipes)
        id == Len(p.pipes)
    IN  IF WriteFits(r.pipes, id, input)
        THEN Res(r.cmd, r.fdt, [r.pipes EXCEPT ![id] = @ \o input], FALSE)
        ELSE Res(r.cmd, r.fdt,
                 [r.pipes EXCEPT ![id] = @ \o SubSeq(input, 1, PipeCap - Len(@))], TRUE)

\* Not the code's operator<: a pending stdout binding is dropped as well.
feed_in_drops_binding(c, input, fdt, pipes) ==
    LET p  == create_pipe(fdt, pipes)
        r  == redirect_in([c EXCEPT !.captured_stdout = NoCapture],
                          p.read_fd, p.fdt, p.pipes)
        id == Len(p.pipes)
    IN  IF WriteFits(r.pipes, id, input)
        THEN Res(r.cmd, close(p.write_fd, r.fdt),
                 [r.pipes EXCEPT ![id] = @ \o input], FALSE)
        ELSE Res(r.cmd, r.fdt,
                 [r.pipes EXCEPT ![id] = @ \o SubSeq(input, 1, PipeCap - Len(@))], TRUE)

\* command& operator<(command& cmd, std::string& input)
feed_in(c, input, fdt, pipes) ==
    LET p  == create_pipe(fdt, pipes)
        r  == redirect_in(c, p.read_fd, p.fdt, p.pipes)
        id == Len(p.pipes)
    IN  IF WriteFits(r.pipes, id, input)
        THEN Res(r.cmd, close(p.write_fd, r.fdt),
                 [r.pipes EXCEPT ![id] = @ \o input], FALSE)
        ELSE Res(r.cmd, r.fdt,
                 [r.pipes EXCEPT ![id] = @ \o SubSeq(input, 1, PipeCap - Len(@))], TRUE)

\* Not the code's operator|: the appended processes are put in front.
chain_prepend(c, other, fdt, pipes) ==
    LET p  == create_pipe(fdt, pipes)
        n  == Len(c.processes)
        o1 == [other EXCEPT !.processes[1].stdin_fd = p.read_fd]
        c1 == [c EXCEPT !.processes[n].stdout_fd = p.write_fd]
    IN  Res([processes       |-> o1.processes \o c1.processes,
             captured_stdout |-> o1.captured_stdout,
             captured_stderr |-> o1.captured_stderr],
            p.fdt, p.pipes, FALSE)

\* command& command::operator|(command&& other)
chain(c, other, fdt, pipes) ==
    LET p    == create_pipe(fdt, pipes)
        n    == Len(c.processes)
        fdt1 == destroy(front(other).stdin_fd, p.fdt)
        o1   == [other EXCEPT !.processes[1].stdin_fd = p.read_fd]
        fdt2 == destroy(back(c).stdout_fd, fdt1)
        c1   == [c EXCEPT !.processes[n].stdout_fd = p.write_fd]
        fdt3 == drop_capture(c.captured_stderr, drop_capture(c.captured_stdout, fdt2))
    IN  Res([processes       |-> c1.processes \o o1.processes,
             captured_stdout |-> o1.captured_stdout,
             captured_stderr |-> o1.captured_stderr],
            fdt3, p.pipes, FALSE)

\* The open flags of the path overloads.
TruncFlags  == "O_WRONLY|O_CREAT|O_TRUNC"
AppendFlags == "O_WRONLY|O_CREAT|O_APPEND"
ReadFlags   == "O_RDONLY"

\* operator>(cmd, path) and operator>>(cmd, path)
redirect_out_path(c, path, append, fdt, pipes) ==
    LET f == open(fdt, path, IF append THEN AppendFlags ELSE TruncFlags)
    IN  redirect_out(c, f.fd, f.fdt, pipes)

\* operator>=(cmd, path) and operator>>=(cmd, path)
redirect_err_path(c, path, append, fdt, pipes) ==
    LET f == open(fdt, path, IF append THEN AppendFlags ELSE TruncFlags)
    IN  redirect_err(c, f.fd, f.fdt, pipes)

\* operator<(cmd, path)
redirect_in_path(c, path, fdt, pipes) ==
    LET f == open(fdt, path, ReadFlags)
    IN  redirect_in(c, f.fd, f.fdt, pipes)


(***************************************************************************)
(* The external programs the host names.  A command string is a program    *)
(* and its argument: "printf" writes its argument to stdout and exits 0,   *)
(* "printf >&2" (run by a shell) writes it to stderr instead,              *)
(* "true" and "false" exit with 0 and 1, "cat" copies stdin to stdout,     *)
(* "head" copies the first line (one byte here) of stdin and exits, "yes"  *)
(* writes without end, and "random-unavailable-cmd" is not an executable.  *)
(***************************************************************************)
Cmd(prog, arg) == [prog |-> prog, arg |-> arg]

Missing == Cmd("random-unavailable-cmd", <<>>)
Printfs == {Cmd("printf", a) : a \in SeqsUpTo(Byte, MaxOut) \ {<<>>}}

Executable(c) == c.prog # "random-unavailable-cmd"

\* What a program exits with when it runs to its end.
ExitCode(c) == IF c.prog = "false" THEN 1 ELSE 0

\* How a child ended: exit(code), of which the parent sees the low eight
\* bits, or a signal.
Exited(code)  == [how |-> "exit", n |-> code % 256]
Signaled(sig) == [how |-> "signal", n |-> sig]
Running       == [how |-> "none", n |-> 0]

\* The wait status ::waitpid() stores for a child that ended with t.
wstatus(t) == IF t.how = "exit" THEN t.n * 256 ELSE t.n

\* Not the code's status: WIFEXITED is tested first, and a child ended by
\* signal n is reported as 128 + n.
WEXITSTATUS_if_exited(ws) ==
    IF ws % 128 = 0 THEN (ws \div 256) % 256 ELSE 128 + (ws % 128)

\* WEXITSTATUS(waitstatus)
WEXITSTATUS(ws) == (ws \div 256) % 256

(***************************************************************************)
(* The state.                                                              *)
(***************************************************************************)
VARIABLES
    cmd,        \* the command object the host builds and runs
    other,      \* a temporary command (the right operand of |), or NoCommand
    strings,    \* the caller's std::string variables bound by > and >=
    fdt,        \* the host's descriptor table
    pipes,      \* contents of every pipe created so far
    kids,       \* the children forked so far, indexed by pid
    pc,         \* where the host is
    i,          \* the loop index of run()'s loops
    throwing,   \* TRUE for run(), FALSE for run(std::nothrow)
    buf,        \* descriptor::read()'s static char buf[]: the bytes before
                \* the zeros it still holds since program start
    output,     \* descriptor::read()'s static std::string output
    waitstatus, \* run()'s local
    outcome,    \* how the call of run ended
    log,        \* what run() has done so far, in order
    nops,       \* redirection operators applied so far
    op,         \* the operator the host applied last, and to which command
    held        \* the descriptor objects the host holds itself, by name, and
                \* whether close() has been called on them

vars == <<cmd, other, strings, fdt, pipes, kids, pc, i, throwing, buf, output,
          waitstatus, outcome, log, nops, op, held>>

\* descriptor a, b;
HeldNames == {"a", "b"}
Held(d, closed) == [desc |-> d, closed |-> closed]

VarNames == {"v1", "v2"}      \* the strings the host captures into
Junk     == <<MaxByte>>      \* what the caller's strings hold beforehand

NoOutcome == [kind |-> "none", code |-> 0]

\* The host's descriptor table at start: the three standard streams, and
\* descriptor 3 either free or in use by the host.
HostTables ==
    {[k \in Fds |-> IF k <= STDERR_FILENO THEN Obj("std", k, "")
                    ELSE IF k = 3 /\ three THEN Obj("host", 0, "")
                    ELSE Closed] : three \in BOOLEAN}

\* The contents of the static buf left by earlier read() calls of the host.
StaleBufs == SeqsUpTo(Byte \ {0}, MaxOut)

InitWith(Cs, Bufs) ==
    /\ cmd \in {command(c) : c \in Cs}
    /\ other = NoCommand
    /\ strings = [v \in VarNames \cup {"input"} |-> Junk]
    /\ fdt \in HostTables
    /\ pipes = <<>>
    /\ kids = <<>>
    /\ pc = "build"
    /\ i = 0
    /\ throwing = FALSE
    /\ buf \in Bufs
    /\ output = <<>>
    /\ waitstatus = -1
    /\ outcome = NoOutcome
    /\ log = <<>>
    /\ nops = 0
    /\ op = <<"command", "cmd">>
    /\ held = [x \in HeldNames |-> Held(descriptor(-1), FALSE)]

NProcs == Len(cmd.processes) + Len(other.processes)


(***************************************************************************)
(* Building: the host applies the library's operators to cmd or to the     *)
(* temporary other.                                                        *)
(***************************************************************************)
Targets == {"cmd"} \cup (IF other # NoCommand THEN {"other"} ELSE {})
Target(t) == IF t = "cmd" THEN cmd ELSE other

\* The operator named name, applied to t, had the result r.
Apply(name, t, r) ==
    /\ cmd'   = IF t = "cmd" THEN r.cmd ELSE cmd
    /\ other' = IF t = "cmd" THEN other ELSE r.cmd
    /\ fdt'   = r.fdt
    /\ pipes' = r.pipes
    /\ pc'    = IF r.blocked THEN "blocked" ELSE pc
    /\ nops'  = nops + 1
    /\ op'    = <<name, t>>
    /\ UNCHANGED <<held, kids, i, throwing, buf, output, waitstatus, outcome, log>>

CanRedirect == pc = "build" /\ nops < MaxOps

\* command{c}: a temporary, the right operand of a later |
NewCommand(Cs, N) ==
    /\ pc = "build" /\ other = NoCommand /\ NProcs < N
    /\ \E c \in Cs : other' = command(c)
    /\ op' = <<"command", "other">>
    /\ UNCHANGED <<held, cmd, strings, fdt, pipes, kids, pc, i, throwing, buf, output,
                   waitstatus, outcome, log, nops>>

\* cmd | std::move(other)
Pipe ==
    /\ pc = "build" /\ other # NoCommand /\ CanPipe(fdt)
    /\ LET r == chain(cmd, other, fdt, pipes)
       IN  /\ cmd' = r.cmd
           /\ other' = NoCommand
           /\ fdt' = r.fdt
           /\ pipes' = r.pipes
    /\ op' = <<"|", "cmd">>
    /\ UNCHANGED <<held, strings, kids, pc, i, throwing, buf, output, waitstatus, outcome,
                   log, nops>>

\* t | "c": command& command::operator|(std::string other)
PipeString(Cs, N) ==
    /\ pc = "build" /\ NProcs < N /\ CanPipe(fdt)
    /\ \E t \in Targets, c \in Cs :
          LET r == chain(Target(t), command(c), fdt, pipes)
          IN  /\ cmd'   = IF t = "cmd" THEN r.cmd ELSE cmd
              /\ other' = IF t = "cmd" THEN other ELSE r.cmd
              /\ fdt' = r.fdt
              /\ pipes' = r.pipes
              /\ op' = <<"|", t>>
    /\ UNCHANGED <<held, strings, kids, pc, i, throwing, buf, output, waitstatus, outcome,
                   log, nops>>

\* t > fd, t >> fd with one of the library's standard descriptors
RedirectOut ==
    /\ CanRedirect
    /\ \E t \in Targets, d \in {in, out, err} :
          Apply(">fd", t, redirect_out(Target(t), d, fdt, pipes))
    /\ UNCHANGED strings

\* t >= fd, t >>= fd
RedirectErr ==
    /\ CanRedirect
    /\ \E t \in Targets, d \in {in, out, err} :
          Apply(">=fd", t, redirect_err(Target(t), d, fdt, pipes))
    /\ UNCHANGED strings

\* t < fd
RedirectIn ==
    /\ CanRedirect
    /\ \E t \in Targets, d \in {in, out, err} :
          Apply("<fd", t, redirect_in(Target(t), d, fdt, pipes))
    /\ UNCHANGED strings

\* t > path, t >> path
RedirectOutPath ==
    /\ CanRedirect /\ CanOpen(fdt)
    /\ \E t \in Targets, a \in BOOLEAN :
          Apply(IF a THEN ">>path" ELSE ">path", t, redirect_out_path(Target(t), "path", a, fdt, pipes))
    /\ UNCHANGED strings

\* t >= path, t >>= path
RedirectErrPath ==
    /\ CanRedirect /\ CanOpen(fdt)
    /\ \E t \in Targets, a \in BOOLEAN :
          Apply(IF a THEN ">>=path" ELSE ">=path", t, redirect_err_path(Target(t), "path", a, fdt, pipes))
    /\ UNCHANGED strings

\* t < path
RedirectInPath ==
    /\ CanRedirect /\ CanOpen(fdt)
    /\ \E t \in Targets :
          Apply("<path", t, redirect_in_path(Target(t), "path", fdt, pipes))
    /\ UNCHANGED strings

\* t > output
CaptureOut ==
    /\ CanRedirect /\ CanPipe(fdt)
    /\ \E t \in Targets, v \in VarNames :
          Apply(">string", t, capture_out(Target(t), v, fdt, pipes))
    /\ UNCHANGED strings

\* t >= output
CaptureErr ==
    /\ CanRedirect /\ CanPipe(fdt)
    /\ \E t \in Targets, v \in VarNames :
          Apply(">=string", t, capture_err(Target(t), v, fdt, pipes))
    /\ UNCHANGED strings

\* std::string input{...}; t < input
FeedIn(Ins) ==
    /\ CanRedirect /\ CanPipe(fdt)
    /\ \E t \in Targets, input \in Ins :
          /\ strings' = [strings EXCEPT !["input"] = input]
          /\ Apply("<string", t, feed_in(Target(t), input, fdt, pipes))

(***************************************************************************)
(* The host using class descriptor directly: the constructor from a        *)
(* number, create_pipe(), link() and close() are public.  The host catches *)
(* what a call throws and goes on.                                         *)
(***************************************************************************)
\* x = descriptor{n}
HostDescriptor ==
    /\ pc = "build"
    /\ \E x \in HeldNames, n \in -1 .. max_standard_fd :
          /\ held' = [held EXCEPT ![x] = Held(descriptor(n), FALSE)]
          /\ op' = <<"descriptor", x>>
    /\ outcome' = NoOutcome
    /\ UNCHANGED <<cmd, other, strings, fdt, pipes, kids, pc, i, throwing, buf, output,
                   waitstatus, log, nops>>

\* std::tie(a, b) = descriptor::create_pipe(): a is the read end
HostPipe ==
    /\ pc = "build" /\ CanPipe(fdt) /\ Len(pipes) < MaxPipes
    /\ LET p == create_pipe(fdt, pipes)
       IN  /\ held' = [held EXCEPT !["a"] = Held(p.read_fd, FALSE),
                                   !["b"] = Held(p.write_fd, FALSE)]
           /\ fdt' = p.fdt
           /\ pipes' = p.pipes
    /\ op' = <<"create_pipe", "a", "b">>
    /\ outcome' = NoOutcome
    /\ UNCHANGED <<cmd, other, strings, kids, pc, i, throwing, buf, output,
                   waitstatus, log, nops>>

\* link(x, y)
HostLink ==
    /\ pc = "build"
    /\ \E x, y \in HeldNames :
          LET r == link(held[x].desc, held[y].desc, x, y)
          IN  /\ held' = [held EXCEPT ![x].desc = r.fd1, ![y].desc = r.fd2]
              /\ outcome' = IF r.threw THEN [kind |-> "usage_error", code |-> 0]
                            ELSE NoOutcome
              /\ op' = <<"link", x, y>>
    /\ UNCHANGED <<cmd, other, strings, fdt, pipes, kids, pc, i, throwing, buf, output,
                   waitstatus, log, nops>>

\* x.close()
HostClose ==
    /\ pc = "build"
    /\ \E x \in HeldNames :
          /\ fdt' = close(held[x].desc, fdt)
          /\ held' = [held EXCEPT ![x] = Held(close_desc(@.desc), TRUE)]
          /\ op' = <<"close", x>>
    /\ outcome' = NoOutcome
    /\ UNCHANGED <<cmd, other, strings, pipes, kids, pc, i, throwing, buf, output,
                   waitstatus, log, nops>>

(***************************************************************************)
(* The operating system: who holds which end of a pipe.                    *)
(***************************************************************************)
Alive(k) == kids[k].state \in {"forked", "running"}

Holds(t, kind, id) == \E n \in Fds : t[n].kind = kind /\ t[n].id = id

HasReader(id) ==
    \/ Holds(fdt, "pipe_r", id)
    \/ \E k \in DOMAIN kids : Alive(k) /\ Holds(kids[k].fdt, "pipe_r", id)

HasWriter(id) ==
    \/ Holds(fdt, "pipe_w", id)
    \/ \E k \in DOMAIN kids : Alive(k) /\ Holds(kids[k].fdt, "pipe_w", id)

AllClosed == [k \in Fds |-> Closed]

Min(a, b) == IF a <= b THEN a ELSE b

(***************************************************************************)
(* int command::run(std::nothrow_t) and int command::run()                 *)
(***************************************************************************)
\* Not the code's order: the children are reaped before the captures are
\* drained.
NextPhase_wait_first(p) ==
    CASE p = "execute"        -> "wait"
      [] p = "wait"           -> "capture_stdout"
      [] p = "capture_stdout" -> "capture_stderr"
      [] p = "capture_stderr" -> "return"
      [] OTHER                -> "done"

\* The order of run()'s phases.
NextPhase(p) ==
    CASE p = "execute"        -> "capture_stdout"
      [] p = "capture_stdout" -> "capture_stderr"
      [] p = "capture_stderr" -> "wait"
      [] p = "wait"           -> "return"
      [] OTHER                -> "done"

\* cmd.run() or cmd.run(std::nothrow)
Run ==
    /\ pc = "build" /\ other = NoCommand
    /\ \E t \in BOOLEAN : throwing' = t
    /\ pc' = "execute"
    /\ i' = 1
    /\ UNCHANGED <<held, cmd, other, strings, fdt, pipes, kids, buf, output, waitstatus,
                   outcome, log, nops, op>>

\* close_if_linked, the parent's branch of posix_process::execute()
close_if_linked_desc(d) == IF linked(d) THEN close_desc(d) ELSE d
close_if_linked(d, t)   == IF linked(d) THEN close(d, t) ELSE t

\* What the child starts from: a copy of the host's descriptor table and of
\* the process object.
Kid(t, proc) ==
    [state |-> "forked", fdt |-> t, proc |-> proc, todo |-> <<>>,
     eof |-> FALSE, wrote |-> <<>>, status |-> Running]

\* process.execute(), ::fork() succeeding: the parent's side.
execute_parent(proc, t, pid) ==
    [proc |-> [proc EXCEPT !.stdin_fd  = close_if_linked_desc(@),
                           !.stdout_fd = close_if_linked_desc(@),
                           !.stderr_fd = close_if_linked_desc(@),
                           !.pid_      = pid],
     fdt  |-> close_if_linked(proc.stderr_fd,
                 close_if_linked(proc.stdout_fd,
                    close_if_linked(proc.stdin_fd, t)))]

\* One turn of run()'s first loop: process.execute() for process i.
Execute ==
    /\ pc = "execute"
    /\ LET proc == cmd.processes[i]
           pid  == Len(kids) + 1
           r    == execute_parent(proc, fdt, pid)
       IN  /\ kids' = Append(kids, Kid(fdt, proc))
           /\ cmd' = [cmd EXCEPT !.processes[i] = r.proc]
           /\ fdt' = r.fdt
    /\ log' = Append(log, <<"execute", i>>)
    /\ IF i < Len(cmd.processes)
       THEN i' = i + 1 /\ pc' = pc
       ELSE i' = 1 /\ pc' = NextPhase(pc)
    /\ UNCHANGED <<held, other, strings, pipes, throwing, buf, output, waitstatus, outcome,
                   nops, op>>

\* ::fork() returns -1: execute() throws os_error, which leaves run().
ForkFails ==
    /\ pc = "execute"
    /\ outcome' = [kind |-> "os_error", code |-> 0]
    /\ pc' = "done"
    /\ UNCHANGED <<held, cmd, other, strings, fdt, pipes, kids, i, throwing, buf, output,
                   waitstatus, log, nops, op>>

Binding(p) == IF p \in {"capture_stdout", "read_stdout"}
              THEN cmd.captured_stdout ELSE cmd.captured_stderr

ReadPhase(p) == IF p = "capture_stdout" THEN "read_stdout" ELSE "read_stderr"
CapturePhase(p) == IF p = "read_stdout" THEN "capture_stdout" ELSE "capture_stderr"
StreamOf(p) == IF p \in {"capture_stdout", "read_stdout"}
               THEN STDOUT_FILENO ELSE STDERR_FILENO

\* capture_stream(captured_stdout) / capture_stream(captured_stderr) up to
\* the call of read(): the caller's string and read()'s static string are
\* cleared.  Without a binding the lambda does nothing.
CaptureStream ==
    /\ pc \in {"capture_stdout", "capture_stderr"}
    /\ IF Binding(pc).has
       THEN /\ strings' = [strings EXCEPT ![Binding(pc).second] = <<>>]
            /\ output' = <<>>
            /\ log' = Append(log, <<"capture", StreamOf(pc)>>)
            /\ pc' = ReadPhase(pc)
       ELSE /\ pc' = NextPhase(pc)
            /\ UNCHANGED <<strings, output, log>>
    /\ UNCHANGED <<held, cmd, other, fdt, pipes, kids, i, throwing, buf, waitstatus,
                   outcome, nops, op>>

\* ::read(fd, buf, 2048) puts the chunk at the start of buf; the rest of
\* buf keeps what it held.
Overlay(b, chunk) ==
    chunk \o (IF Len(b) > Len(chunk) THEN SubSeq(b, Len(chunk) + 1, Len(b)) ELSE <<>>)

\* The C string at the start of buf: the bytes before the first NUL.
RECURSIVE CStr(_)
CStr(b) == IF b = <<>> \/ Head(b) = 0 THEN <<>> ELSE <<Head(b)>> \o CStr(Tail(b))

\* output.append(buf)
append(o, b) == o \o CStr(b)

\* One ::read() of the loop in descriptor::read() that returns data.
ReadChunk ==
    /\ pc \in {"read_stdout", "read_stderr"}
    /\ LET fd == Binding(pc).first.fd_
       IN  /\ fd \in Fds /\ fdt[fd].kind = "pipe_r"
           /\ pipes[fdt[fd].id] # <<>>
           /\ LET id    == fdt[fd].id
                  n     == Min(Len(pipes[id]), BufSize)
                  chunk == SubSeq(pipes[id], 1, n)
              IN  /\ pipes' = [pipes EXCEPT ![id] = SubSeq(@, n + 1, Len(@))]
                  /\ buf' = Overlay(buf, chunk)
                  /\ output' = append(output, Overlay(buf, chunk))
    /\ UNCHANGED <<held, cmd, other, strings, fdt, kids, pc, i, throwing, waitstatus,
                   outcome, log, nops, op>>

\* ::read() returns 0 (every write end is closed) or -1 (not an open
\* descriptor): read() returns, the string is assigned and the read end
\* closed.
ReadEnds(fd) ==
    \/ fd \notin Fds
    \/ fdt[fd].kind = "closed"
    \/ fdt[fd].kind = "pipe_r" /\ pipes[fdt[fd].id] = <<>> /\ ~HasWriter(fdt[fd].id)

ReadEof ==
    /\ pc \in {"read_stdout", "read_stderr"}
    /\ ReadEnds(Binding(pc).first.fd_)
    /\ strings' = [strings EXCEPT ![Binding(pc).second] = output]
    /\ fdt' = close(Binding(pc).first, fdt)
    /\ cmd' = IF pc = "read_stdout"
              THEN [cmd EXCEPT !.captured_stdout.first = close_desc(@)]
              ELSE [cmd EXCEPT !.captured_stderr.first = close_desc(@)]
    /\ log' = Append(log, <<"drained", StreamOf(pc)>>)
    /\ pc' = NextPhase(CapturePhase(pc))
    /\ UNCHANGED <<held, other, pipes, kids, i, throwing, buf, output, waitstatus, outcome,
                   nops, op>>

\* Not the code's assignment: the first status is kept.
assign_waitstatus_first(old, ws) == IF old = -1 THEN ws ELSE old

\* waitstatus = process.wait();
assign_waitstatus(old, ws) == ws

\* Not the code's wait(): it never throws.
wait_never_throws(proc) == FALSE

\* if (not pid_) throw usage_error
wait_throws(proc) == proc.pid_ = 0

\* One turn of run()'s second loop.  posix_process::wait() throws
\* usage_error without a pid and otherwise returns once the child has
\* terminated.
Wait ==
    /\ pc = "wait"
    /\ LET pid == cmd.processes[i].pid_
       IN  IF wait_throws(cmd.processes[i])
           THEN /\ outcome' = [kind |-> "usage_error", code |-> 0]
                /\ pc' = "done"
                /\ UNCHANGED <<kids, waitstatus, log, i>>
           ELSE /\ kids[pid].state = "zombie"
                /\ waitstatus' = assign_waitstatus(waitstatus, wstatus(kids[pid].status))
                /\ kids' = [kids EXCEPT ![pid].state = "reaped"]
                /\ log' = Append(log, <<"wait", i>>)
                /\ IF i < Len(cmd.processes)
                   THEN i' = i + 1 /\ pc' = pc
                   ELSE i' = 1 /\ pc' = NextPhase(pc)
                /\ UNCHANGED outcome
    /\ UNCHANGED <<held, cmd, other, strings, fdt, pipes, throwing, buf, output, nops, op>>

\* posix_process p{c}; p.wait(): the host calls wait() on a process object
\* it has made itself and never executed.  Past the test, ::waitpid is
\* called on the value of the empty optional.
HostWait ==
    /\ pc \in {"build", "done"} /\ nops < MaxOps
    /\ LET proc == posix_process(Cmd("true", <<>>))
       IN  IF wait_throws(proc)
           THEN /\ outcome' = [kind |-> "usage_error", code |-> 0]
                /\ UNCHANGED log
           ELSE /\ log' = Append(log, <<"wait", 0>>)
                /\ UNCHANGED outcome
    /\ nops' = nops + 1
    /\ op' = <<"wait", "posix_process">>
    /\ UNCHANGED <<held, cmd, other, strings, fdt, pipes, kids, pc, i, throwing, buf,
                   output, waitstatus>>

\* How often run() has got as far as its first execute().
Runs == Cardinality({k \in DOMAIN log : log[k] = <<"execute", 1>>})

\* cmd.run() or cmd.run(std::nothrow) on a command that has run before:
\* nothing in run() tells the two calls apart.
RunAgain ==
    /\ pc = "done" /\ Runs < MaxRuns
    /\ \E t \in BOOLEAN : throwing' = t
    /\ pc' = "execute"
    /\ i' = 1
    /\ UNCHANGED <<held, cmd, other, strings, fdt, pipes, kids, buf, output, waitstatus,
                   outcome, log, nops, op>>

\* cmd > output on a command that has run before
LateCaptureOut ==
    /\ pc = "done" /\ nops < MaxOps /\ CanPipe(fdt)
    /\ \E v \in VarNames : Apply(">string", "cmd", capture_out(cmd, v, fdt, pipes))
    /\ UNCHANGED strings

\* Not the code's run(): it returns the status like run(std::nothrow).
run_outcome_returns(th, status) == [kind |-> "returned", code |-> status]

\* command::run(): throw command_error when the status is not 0.
run_outcome(th, status) ==
    IF th /\ status # 0
    THEN [kind |-> "command_error", code |-> status]
    ELSE [kind |-> "returned", code |-> status]

\* return WEXITSTATUS(waitstatus); and what run() makes of it.
Return ==
    /\ pc = "return"
    /\ outcome' = run_outcome(throwing, WEXITSTATUS(waitstatus))
    /\ pc' = "done"
    /\ UNCHANGED <<held, cmd, other, strings, fdt, pipes, kids, i, throwing, buf, output,
                   waitstatus, log, nops, op>>


(***************************************************************************)
(* The child between fork() and execvp(): the pid == 0 branch of           *)
(* posix_process::execute().                                               *)
(***************************************************************************)
Setup(t, crashed) == [fdt |-> t, crashed |-> crashed]

\* What linked_fd_->close() can do when linked_fd_ points at a dead local
\* of create_pipe(): the read of fd_ yields an arbitrary number, so the
\* call closes nothing, closes any one descriptor above max_standard_fd,
\* or faults on the garbage file_path_.
close_linked(d, t) ==
    IF ~linked(d) THEN {Setup(t, FALSE)}
    ELSE {Setup(t, FALSE), Setup(t, TRUE)}
         \cup {Setup(sys_close(t, n), FALSE) : n \in {m \in Fds : ClosesHandle(m) /\ t[m] # Closed}}

\* dup_and_close(fd, dup_to): fd.dup(dup_to); fd.close(); fd.close_linked();
dup_and_close(d, dup_to, t) == close_linked(d, close(d, sys_dup2(t, d.fd_, dup_to)))

\* The three calls in a row; a fault ends the child at once.
child_setup(proc, t) ==
    LET then(S, d, to) ==
            UNION {IF s.crashed THEN {s} ELSE dup_and_close(d, to, s.fdt) : s \in S}
    IN  then(then(dup_and_close(proc.stdin_fd, STDIN_FILENO, t),
                  proc.stdout_fd, STDOUT_FILENO),
             proc.stderr_fd, STDERR_FILENO)

Terminated(kid, status) ==
    [kid EXCEPT !.state = "zombie", !.fdt = AllClosed, !.todo = <<>>,
                !.eof = TRUE, !.status = status]

\* What a program has to write before it reads anything.
FirstOutput(c) ==
    CASE c.prog \in {"printf", "printf >&2"} -> c.arg
      [] c.prog = "yes"    -> <<1>>
      [] OTHER             -> <<>>

ReadsInput(c) == c.prog \in {"cat", "head"}

\* Not the code's child branch: the child goes on when execvp has failed.
execvp_goes_on(kid, t) ==
    [kid EXCEPT !.state = "running", !.fdt = t,
                !.todo = FirstOutput(kid.proc.cmd_),
                !.eof = ~ReadsInput(kid.proc.cmd_)]

\* exit(::execvp(sh.argv()[0], sh.argv())): the program takes over, or
\* execvp returns -1 and the child exits with it.
execvp(kid, t) ==
    IF Executable(kid.proc.cmd_)
    THEN [kid EXCEPT !.state = "running", !.fdt = t,
                     !.todo = FirstOutput(kid.proc.cmd_),
                     !.eof = ~ReadsInput(kid.proc.cmd_)]
    ELSE Terminated(kid, Exited(-1))

ChildExec ==
    \E k \in DOMAIN kids :
       /\ kids[k].state = "forked"
       /\ \E s \in child_setup(kids[k].proc, kids[k].fdt) :
             kids' = [kids EXCEPT ![k] =
                         IF s.crashed THEN Terminated(@, Signaled(11))
                         ELSE execvp(@, s.fdt)]
       /\ UNCHANGED <<held, cmd, other, strings, fdt, pipes, pc, i, throwing, buf, output,
                      waitstatus, outcome, log, nops, op>>

(***************************************************************************)
(* The programs.                                                           *)
(***************************************************************************)
\* wrote keeps what a program has written to its stdout; for "yes",
\* whose output has no end, nothing is kept.
AfterWrite(kid) ==
    IF kid.proc.cmd_.prog = "yes" THEN kid
    ELSE IF kid.proc.cmd_.prog = "printf >&2" THEN [kid EXCEPT !.todo = Tail(@)]
    ELSE [kid EXCEPT !.todo = Tail(@), !.wrote = Append(@, Head(kid.todo))]

\* A running child writes the next byte to its stdout ("printf >&2": to
\* its stderr).  Into a pipe without a reader the write raises SIGPIPE
\* (13), into a full pipe it blocks.
ChildWrite ==
    \E k \in DOMAIN kids :
       /\ kids[k].state = "running" /\ kids[k].todo # <<>>
       /\ LET o == kids[k].fdt[IF kids[k].proc.cmd_.prog = "printf >&2"
                                THEN STDERR_FILENO ELSE STDOUT_FILENO]
          IN  IF o.kind = "pipe_w"
              THEN IF ~HasReader(o.id)
                   THEN /\ kids' = [kids EXCEPT ![k] = Terminated(@, Signaled(13))]
                        /\ UNCHANGED pipes
                   ELSE /\ Len(pipes[o.id]) < PipeCap
                        /\ pipes' = [pipes EXCEPT ![o.id] = Append(@, Head(kids[k].todo))]
                        /\ kids' = [kids EXCEPT ![k] = AfterWrite(@)]
              ELSE /\ kids' = [kids EXCEPT ![k] = AfterWrite(@)]
                   /\ UNCHANGED pipes
       /\ UNCHANGED <<held, cmd, other, strings, fdt, pc, i, throwing, buf, output,
                      waitstatus, outcome, log, nops, op>>


\* What a reading program does with a chunk: cat passes it on, head keeps
\* the first line and reads no further.
AfterRead(kid, data) ==
    IF kid.proc.cmd_.prog = "head"
    THEN [kid EXCEPT !.todo = <<Head(data)>>, !.eof = TRUE]
    ELSE [kid EXCEPT !.todo = data]

\* A running child reads its stdin: everything a pipe holds, end of file
\* once the pipe is empty and no write end is open.  Any other stdin is at
\* end of file.
ChildRead ==
    \E k \in DOMAIN kids :
       /\ kids[k].state = "running" /\ kids[k].todo = <<>> /\ ~kids[k].eof
       /\ LET s == kids[k].fdt[STDIN_FILENO]
          IN  IF s.kind = "pipe_r"
              THEN IF pipes[s.id] # <<>>
                   THEN /\ kids' = [kids EXCEPT ![k] = AfterRead(@, pipes[s.id])]
                        /\ pipes' = [pipes EXCEPT ![s.id] = <<>>]
                   ELSE /\ ~HasWriter(s.id)
                        /\ kids' = [kids EXCEPT ![k].eof = TRUE]
                        /\ UNCHANGED pipes
              ELSE /\ kids' = [kids EXCEPT ![k].eof = TRUE]
                   /\ UNCHANGED pipes
       /\ UNCHANGED <<held, cmd, other, strings, fdt, pc, i, throwing, buf, output,
                      waitstatus, outcome, log, nops, op>>

\* A running child with nothing left to do exits; the kernel closes its
\* descriptors.
ChildExit ==
    \E k \in DOMAIN kids :
       /\ kids[k].state = "running" /\ kids[k].todo = <<>> /\ kids[k].eof
       /\ kids' = [kids EXCEPT ![k] = Terminated(@, Exited(ExitCode(@.proc.cmd_)))]
       /\ UNCHANGED <<held, cmd, other, strings, fdt, pipes, pc, i, throwing, buf, output,
                      waitstatus, outcome, log, nops, op>>

(***************************************************************************)
(* Specifications.  Each takes the host's commands from a set of its own.  *)
(***************************************************************************)
Inputs == SeqsUpTo(Byte, MaxOut)

True   == Cmd("true", <<>>)
False  == Cmd("false", <<>>)
Cat    == Cmd("cat", <<>>)
HeadN1 == Cmd("head", <<>>)
Yes    == Cmd("yes", <<>>)

Children == ChildExec \/ ChildWrite \/ ChildRead \/ ChildExit

\* run() once it has been called
Host == Execute \/ ForkFails \/ CaptureStream \/ ReadChunk \/ ReadEof \/ Wait \/ Return

\* Building only: every operator, on commands that are told apart by name.
InitBuild == InitWith({True, False}, {<<>>})

NextBuild ==
    \/ NewCommand({True, False}, MaxBuild) \/ Pipe \/ PipeString({True, False}, MaxBuild)
    \/ RedirectOut \/ RedirectErr \/ RedirectIn
    \/ RedirectOutPath \/ RedirectErrPath \/ RedirectInPath
    \/ CaptureOut \/ CaptureErr \/ FeedIn(Inputs)

SpecBuild == InitBuild /\ [][NextBuild]_vars


\* Running pipelines of programs that exit with different statuses, with
\* and without captures.
StatusCmds == {True, False, Missing, Cmd("printf", <<1>>)}

Init == InitWith(StatusCmds, {<<>>})

Next ==
    \/ NewCommand(StatusCmds, MaxProcs) \/ Pipe \/ PipeString(StatusCmds, MaxProcs)
    \/ CaptureOut \/ CaptureErr
    \/ Run \/ Host
    \/ ChildExec \/ ChildWrite \/ ChildExit

Spec == Init /\ [][Next]_vars

\* Capturing what programs write: the writers write every byte string up
\* to MaxOut bytes, and the host has called read() before or not.
InitCapture == InitWith(Printfs, StaleBufs)

NextCapture ==
    \/ NewCommand({Cmd("printf", <<1>>)}, MaxProcs) \/ Pipe
    \/ CaptureOut
    \/ Run \/ Host
    \/ ChildExec \/ ChildWrite \/ ChildExit

SpecCapture == InitCapture /\ [][NextCapture]_vars

\* cat < input > output, the host's first use of read()
InitRoundTrip == InitWith({Cat}, {<<>>})

NextRoundTrip ==
    \/ PipeString({Cat}, MaxProcs)
    \/ CaptureOut \/ FeedIn(Inputs)
    \/ Run \/ Host
    \/ Children

SpecRoundTrip == InitRoundTrip /\ [][NextRoundTrip]_vars

\* printf x > B, then a later stdout redirection, then run()
InitLatest == InitWith({Cmd("printf", <<1>>)}, {<<>>})

NextLatest ==
    \/ CaptureOut \/ RedirectOut \/ RedirectOutPath
    \/ Run \/ Host
    \/ ChildExec \/ ChildWrite \/ ChildExit

SpecLatest == InitLatest /\ [][NextLatest]_vars

\* yes | head -n1 > output: the host runs pipelines that end in head
InitSigpipe == InitWith({Yes}, {<<>>})

NextSigpipe ==
    \/ PipeString({HeadN1}, MaxProcs)
    \/ CaptureOut
    \/ (back(cmd).cmd_ = HeadN1 /\ Run) \/ Host
    \/ Children

SpecSigpipe == InitSigpipe /\ [][NextSigpipe]_vars

\* A command that is run, changed and run again, and a process object
\* the host waits on without executing it; ::fork() always succeeds.
InitReuse == InitWith({True, Cmd("printf", <<1>>)}, {<<>>})

NextReuse ==
    \/ PipeString({True}, MaxProcs) \/ CaptureOut
    \/ HostWait
    \/ Run \/ RunAgain \/ LateCaptureOut
    \/ Execute \/ CaptureStream \/ ReadChunk \/ ReadEof \/ Wait \/ Return
    \/ ChildExec \/ ChildWrite \/ ChildExit

SpecReuse == InitReuse /\ [][NextReuse]_vars

\* printf | cat > output with more output than a pipe holds.  The host runs
\* run() to its end and the kernel lets every child that can take a step
\* take it.
InitDrain == InitWith({Cmd("printf", [k \in 1 .. MaxOut |-> 1])}, {<<>>})

NextDrain ==
    \/ PipeString({Cat}, MaxProcs) \/ CaptureOut
    \/ RedirectOutPath \/ RedirectErrPath
    \/ Run \/ Host
    \/ Children

SpecDrain == InitDrain /\ [][NextDrain]_vars /\ WF_vars(Host \/ Children)

\* The host handling descriptors itself, next to a command that takes
\* descriptor numbers of its own.
InitDescriptors == InitWith({True}, {<<>>})

NextDescriptors ==
    \/ HostDescriptor \/ HostPipe \/ HostLink \/ HostClose
    \/ PipeString({True}, MaxProcs)

SpecDescriptors == InitDescriptors /\ [][NextDescriptors]_vars


(***************************************************************************)
(* The claims.                                                             *)
(***************************************************************************)
IsPrefix(a, b) == Len(a) <= Len(b) /\ SubSeq(b, 1, Len(a)) = a

n_processes == Len(cmd.processes)

\* What run(std::nothrow) does on a pipeline, in order: every execute(),
\* the stdout capture, the stderr capture, every wait().
RunOrder ==
    [j \in 1 .. n_processes |-> <<"execute", j>>]
    \o (IF cmd.captured_stdout.has
        THEN <<<<"capture", STDOUT_FILENO>>, <<"drained", STDOUT_FILENO>>>> ELSE <<>>)
    \o (IF cmd.captured_stderr.has
        THEN <<<<"capture", STDERR_FILENO>>, <<"drained", STDERR_FILENO>>>> ELSE <<>>)
    \o [j \in 1 .. n_processes |-> <<"wait", j>>]

\* C1: run(std::nothrow) spawns every process in sequence order before it
\* drains any capture, drains the stdout capture before the stderr capture
\* and both before it waits on any process, and waits in sequence order:
\* what run has done so far is always an initial part of that order.
C1_RunOrder == IsPrefix(log, RunOrder)

\* C1 witness: a two-stage pipeline with a stderr binding has run to its
\* end: two spawns, the drain, two waits.
C1_Witness ==
    /\ pc = "done" /\ outcome.kind = "returned"
    /\ n_processes = 2 /\ cmd.captured_stderr.has
    /\ log = RunOrder

LastKid == kids[back(cmd).pid_]

\* C2: the status run(std::nothrow) returns is the exit status of the last
\* process, whatever the earlier stages exited with.
C2_LastStatus ==
    (pc = "done" /\ ~throwing /\ outcome.kind = "returned" /\ LastKid.status.how = "exit")
        => outcome.code = LastKid.status.n

\* C2 witness: the first stage failed, the last succeeded, the result is 0.
C2_Witness ==
    /\ pc = "done" /\ ~throwing /\ outcome.kind = "returned"
    /\ n_processes = 2
    /\ kids[front(cmd).pid_].status = Exited(1)
    /\ LastKid.status = Exited(0)
    /\ outcome.code = 0

\* C3: once the pipeline has been reaped, run() raises command_error
\* exactly when the status is not 0, with that status as return_code(), and
\* returns only 0; run(std::nothrow) returns the status and never raises
\* command_error.
C3_ThrowIffNonZero ==
    (pc = "done" /\ outcome.kind \in {"returned", "command_error"}) =>
        LET status == WEXITSTATUS(waitstatus)
        IN  /\ outcome.code = status
            /\ throwing => (outcome.kind = "command_error" <=> status # 0)
            /\ (throwing /\ outcome.kind = "returned") => outcome.code = 0
            /\ ~throwing => outcome.kind = "returned"

\* C3 witness: run() on a pipeline ending in "false" raised command_error
\* with return_code() 1.
C3_Witness ==
    /\ pc = "done" /\ throwing
    /\ back(cmd).cmd_ = False
    /\ outcome = [kind |-> "command_error", code |-> 1]

\* C4: a pipeline naming an executable that does not exist ends run() and
\* run(std::nothrow) with os_error, never with command_error or a status.
C4_MissingRaisesOsError ==
    (pc = "done" /\ \E j \in 1 .. n_processes :
                        cmd.processes[j].cmd_ = Missing /\ cmd.processes[j].pid_ # 0)
        => outcome.kind = "os_error"


\* R is A | B, B having the processes Bs, built in a step from pipes and
\* fdt to pipes' and fdt'.
ChainPost(A, Bs, R) ==
    LET a == Len(A.processes)
        b == Len(Bs)
    IN  /\ Len(R.processes) = a + b
        /\ \A j \in 1 .. a :
              /\ R.processes[j].cmd_ = A.processes[j].cmd_
              /\ R.processes[j].stdin_fd = A.processes[j].stdin_fd
              /\ R.processes[j].stderr_fd = A.processes[j].stderr_fd
              /\ j < a => R.processes[j].stdout_fd = A.processes[j].stdout_fd
        /\ \A j \in 1 .. b :
              /\ R.processes[a + j].cmd_ = Bs[j].cmd_
              /\ R.processes[a + j].stdout_fd = Bs[j].stdout_fd
              /\ R.processes[a + j].stderr_fd = Bs[j].stderr_fd
              /\ j > 1 => R.processes[a + j].stdin_fd = Bs[j].stdin_fd
        /\ Len(pipes') = Len(pipes) + 1
        /\ LET w == R.processes[a].stdout_fd.fd_
               r == R.processes[a + 1].stdin_fd.fd_
           IN  /\ w \in Fds /\ fdt'[w] = Obj("pipe_w", Len(pipes'), "")
               /\ r \in Fds /\ fdt'[r] = Obj("pipe_r", Len(pipes'), "")

\* C8: a step that chains A | B leaves A's processes in their order followed
\* by B's in their order, has created exactly one pipe, has made its write
\* end the stdout of A's last process and its read end the stdin of B's
\* first process, and has changed no other descriptor of any process.
C8_Chain ==
    [][op'[1] = "|" =>
          IF other # NoCommand /\ other' = NoCommand
          THEN ChainPost(cmd, other.processes, cmd')
          ELSE IF op'[2] = "cmd"
          THEN other' = other
               /\ \E c \in {True, False} : ChainPost(cmd, <<posix_process(c)>>, cmd')
          ELSE cmd' = cmd
               /\ \E c \in {True, False} : ChainPost(other, <<posix_process(c)>>, other')]_vars

\* C8 witness: cmd | other has just been built where other had two
\* processes of its own, the first of them reading the new pipe.
C8_Witness ==
    /\ op = <<"|", "cmd">> /\ other = NoCommand
    /\ Len(cmd.processes) = 3 /\ Len(pipes) = 2
    /\ cmd.processes[1].stdout_fd.fd_ \in Fds
    /\ fdt[cmd.processes[1].stdout_fd.fd_] = Obj("pipe_w", 2, "")
    /\ fdt[cmd.processes[2].stdin_fd.fd_] = Obj("pipe_r", 2, "")
    /\ fdt[cmd.processes[2].stdout_fd.fd_] = Obj("pipe_w", 1, "")
    /\ fdt[cmd.processes[3].stdin_fd.fd_] = Obj("pipe_r", 1, "")

\* The three streams of the processes of c.
Streams(c) ==
    [j \in 1 .. Len(c.processes) |->
        [stdin  |-> c.processes[j].stdin_fd,
         stdout |-> c.processes[j].stdout_fd,
         stderr |-> c.processes[j].stderr_fd]]

\* Between A and R at most the stream named stream of process j differs.
OnlyChanges(A, R, j, stream) ==
    /\ Len(R.processes) = Len(A.processes)
    /\ \A k \in 1 .. Len(A.processes) :
          \A st \in {"stdin", "stdout", "stderr"} :
              (k # j \/ st # stream) => Streams(R)[k][st] = Streams(A)[k][st]

\* C10: input redirection changes only the stdin of the first process,
\* output redirection only the stdout of the last process and error
\* redirection only the stderr of the last process, whatever the sink.
C10_RedirectionFrame ==
    [][LET A == IF op'[2] = "cmd" THEN cmd ELSE other
           R == IF op'[2] = "cmd" THEN cmd' ELSE other'
       IN  /\ op'[1] \in {"<fd", "<path", "<string"} => OnlyChanges(A, R, 1, "stdin")
           /\ op'[1] \in {">fd", ">path", ">>path", ">string"}
                 => OnlyChanges(A, R, Len(A.processes), "stdout")
           /\ op'[1] \in {">=fd", ">=path", ">>=path", ">=string"}
                 => OnlyChanges(A, R, Len(A.processes), "stderr")]_vars


\* run() or run(std::nothrow) has come back with a status.
Completed == pc = "done" /\ outcome.kind \in {"returned", "command_error"}

\* C11: cmd >= buffer makes the write end of a new pipe the stderr of the
\* last process and registers the stderr binding to the buffer; the stdout
\* of the last process and a pending stdout binding stay as they were.
C11_CaptureErrFrame ==
    [][op'[1] = ">=string" =>
          LET A    == IF op'[2] = "cmd" THEN cmd ELSE other
              R    == IF op'[2] = "cmd" THEN cmd' ELSE other'
              new  == Len(pipes')
              sink == back(R).stderr_fd.fd_
          IN  /\ new = Len(pipes) + 1
              /\ sink \in Fds /\ fdt'[sink] = Obj("pipe_w", new, "")
              /\ R.captured_stderr.has
              /\ fdt'[R.captured_stderr.first.fd_] = Obj("pipe_r", new, "")
              /\ back(R).stdout_fd = back(A).stdout_fd
              /\ R.captured_stdout = A.captured_stdout]_vars

\* C12: the latest stdout redirection wins.  A stdout redirection to a
\* descriptor or a path leaves no stdout binding, one to a buffer leaves
\* the binding to the new pipe only; run() changes no string other than
\* the one bound when it runs.
C12_LatestStdoutWins ==
    [][LET R == IF op'[2] = "cmd" THEN cmd' ELSE other'
       IN  /\ (nops' # nops /\ op'[1] \in {">fd", ">path", ">>path"}) => ~R.captured_stdout.has
           /\ (nops' # nops /\ op'[1] = ">string")
                 => /\ R.captured_stdout.has
                    /\ fdt'[R.captured_stdout.first.fd_]
                          = Obj("pipe_r", Len(pipes'), "")
           /\ \A v \in VarNames :
                 strings'[v] # strings[v]
                    => \/ cmd.captured_stdout.has /\ cmd.captured_stdout.second = v
                       \/ cmd.captured_stderr.has /\ cmd.captured_stderr.second = v]_vars

\* C12 witness: a buffer was bound to stdout (the one pipe), stdout was
\* then redirected to a file, and run() has returned with the buffer as
\* it was.
C12_Witness ==
    /\ Completed
    /\ Len(pipes) = 1
    /\ ~cmd.captured_stdout.has
    /\ back(cmd).stdout_fd.file_path_ # NoPath
    /\ \A v \in VarNames : strings[v] = Junk

\* C5: after run() on a pipeline with a stdout capture binding, the bound
\* string is exactly what the last stage wrote to its stdout, however the
\* output was split across ::read() calls and whatever read() did before.
C5_CapturedEqualsWritten ==
    (Completed /\ cmd.captured_stdout.has)
        => strings[cmd.captured_stdout.second] = LastKid.wrote

\* C6: an input string that fits the pipe, fed to cat stages whose stdout
\* is captured, comes back byte for byte once cat has run to its end.
C6_RoundTrip ==
    (/\ Completed
     /\ \A j \in 1 .. n_processes : cmd.processes[j].cmd_ = Cat
     /\ linked(front(cmd).stdin_fd)
     /\ cmd.captured_stdout.has
     /\ \A k \in DOMAIN kids : kids[k].status = Exited(0))
        => strings[cmd.captured_stdout.second] = strings["input"]

\* yes | head -n1 with the stdout of head captured, and run called
SigpipePipeline ==
    /\ n_processes = 2
    /\ front(cmd).cmd_ = Yes /\ back(cmd).cmd_ = HeadN1
    /\ cmd.captured_stdout.has
    /\ pc \notin {"build", "blocked"}
    /\ outcome.kind # "os_error"

\* C7: run() of yes | head -n1 > output completes: as long as it has not
\* come back some process can take a step, and when it has come back it
\* has returned 0 and output is what head wrote.
C7_SigpipeCompletes ==
    SigpipePipeline =>
        IF pc = "done"
        THEN /\ outcome = [kind |-> "returned", code |-> 0]
             /\ strings[cmd.captured_stdout.second] = LastKid.wrote
        ELSE ENABLED NextSigpipe

\* C9: after run() of A | B where B carried a stdout capture into V, V is
\* what the last stage of B wrote.
C9_ChainCarriesCapture ==
    (Completed /\ op = <<"|", "cmd">> /\ cmd.captured_stdout.has)
        => strings[cmd.captured_stdout.second] = LastKid.wrote


C14_LinkThrowKeepsState ==
    [][(op'[1] = "link" /\ op'[2] # op'[3] /\ outcome'.kind = "usage_error") =>
          \A x \in HeldNames : held'[x].desc.linked_fd_ = held[x].desc.linked_fd_]_vars

\* C15: close() leaves the handles 0, 1, 2 alone and closes every other
\* handle, handle 3 included.
C15_CloseAllButStandard ==
    [][op'[1] = "close" =>
          LET fd == held[op'[2]].desc.fd_
          IN  /\ fd \in STDIN_FILENO .. STDERR_FILENO => fdt'[fd] = fdt[fd]
              /\ (fd \in Fds /\ fd > STDERR_FILENO) => fdt'[fd] = Closed]_vars

\* C16: a second close() on the same descriptor object issues no close of
\* its own: the descriptor table is as the first close() left it.
C16_CloseTwice ==
    [][(op'[1] = "close" /\ held[op'[2]].closed) => fdt' = fdt]_vars

\* C17: wait() on a process object that was never executed throws
\* usage_error and waits on nothing; inside run() wait() is called only
\* on a process whose execute() has come back, and does not throw.
C17_WaitNeedsExecute ==
    [][/\ (nops' # nops /\ op'[1] = "wait")
            => /\ outcome'.kind = "usage_error"
               /\ log' = log /\ kids' = kids
       /\ (Len(log') = Len(log) + 1 /\ log'[Len(log')][1] = "wait")
            => LET j == log'[Len(log')][2]
               IN  /\ j \in 1 .. n_processes
                   /\ cmd.processes[j].pid_ # 0
                   /\ \E k \in DOMAIN log : log[k] = <<"execute", j>>
                   /\ outcome' = outcome]_vars

\* C17 witness: after a run that reaped a child, the host has called
\* wait() on a fresh process object and got usage_error; the child is as
\* it was.
C17_Witness ==
    /\ pc = "done" /\ op = <<"wait", "posix_process">>
    /\ outcome.kind = "usage_error"
    /\ Len(kids) = 1 /\ kids[1].state = "reaped"
    /\ log = <<<<"execute", 1>>, <<"wait", 1>>>>

\* C18: no process of the command is spawned more than once, however
\* often run() is called.
C18_OneSpawnPerProcess ==
    \A j \in 1 .. n_processes :
        Cardinality({k \in DOMAIN log : log[k] = <<"execute", j>>}) <= 1

\* C19: once run() has come back the command stays finished: it does not
\* run again, and no operator changes its processes, their descriptors or
\* its capture bindings.
C19_FinishedIsFinal ==
    [][pc = "done" => (pc' = "done" /\ cmd' = cmd)]_vars

\* The first process of cmd takes its stdin from a pipe made by < buffer.
FedFromBuffer(proc) == linked(proc.stdin_fd)

\* C20: with cmd < buffer, when run() is about to spawn the first process
\* the pipe holds the whole buffer and the host has closed the write end;
\* while the first stage runs no process holds the write end, so what it
\* reads is a part of the buffer, and a cat that has read to end of file
\* and exited has passed on exactly the buffer.
C20_InputReadyBeforeSpawn ==
    /\ (pc = "execute" /\ kids = <<>> /\ FedFromBuffer(front(cmd)))
          => LET end == fdt[front(cmd).stdin_fd.fd_]
             IN  /\ end.kind = "pipe_r"
                 /\ pipes[end.id] = strings["input"]
                 /\ ~HasWriter(end.id)
    /\ (kids # <<>> /\ FedFromBuffer(kids[1].proc))
          => LET kid == kids[1]
             IN  /\ (kid.state = "running" /\ kid.fdt[STDIN_FILENO].kind = "pipe_r")
                       => ~HasWriter(kid.fdt[STDIN_FILENO].id)
                 /\ kid.proc.cmd_ = Cat
                       => /\ IsPrefix(kid.wrote, strings["input"])
                          /\ kid.status = Exited(0) => kid.wrote = strings["input"]

\* C20 witness: cat, fed a buffer that fills the pipe, has read it to the
\* end, written all of it and exited.
C20_Witness ==
    /\ kids # <<>> /\ FedFromBuffer(kids[1].proc)
    /\ kids[1].proc.cmd_ = Cat
    /\ kids[1].status = Exited(0)
    /\ Len(strings["input"]) = PipeCap
    /\ kids[1].wrote = strings["input"]

\* C21: cmd < buffer leaves the host blocked in the operator exactly when
\* the buffer is longer than the pipe's capacity; a buffer that fits is in
\* the pipe when the operator returns.  A blocked host takes no further
\* step: it never calls run().
C21_LongInputBlocks ==
    [][/\ pc # "blocked"
       /\ (nops' # nops /\ op'[1] = "<string")
            => LET input == strings'["input"]
               IN  /\ pc' = "blocked" <=> Len(input) > PipeCap
                   /\ pc' # "blocked" => pipes'[Len(pipes')] = input]_vars

\* C21 witness: the host is blocked on a buffer one byte longer than the
\* pipe, the pipe is full and nothing has been spawned.
C21_Witness ==
    /\ pc = "blocked"
    /\ Len(strings["input"]) = PipeCap + 1
    /\ Len(pipes[Len(pipes)]) = PipeCap
    /\ kids = <<>> /\ log = <<>>

C23_FailedExecExits ==
    /\ Len(kids) = Cardinality({k \in DOMAIN log : log[k][1] = "execute"})
    /\ \A j \in 1 .. n_processes :
          LET pid == cmd.processes[j].pid_
          IN  (pid # 0 /\ cmd.processes[j].cmd_ = Missing) =>
                 /\ kids[pid].state \in {"forked", "zombie", "reaped"}
                 /\ kids[pid].wrote = <<>>
                 /\ kids[pid].state # "forked"
                       => kids[pid].status \in {Exited(-1), Signaled(11)}
                 /\ (kids[pid].status.how = "exit"
                        /\ \/ pc = "wait" /\ i = j + 1
                           \/ pc = "return" /\ j = n_processes)
                       => /\ waitstatus = wstatus(kids[pid].status)
                          /\ WEXITSTATUS(waitstatus) # 0

\* C23 witness: in a two-stage pipeline whose first program does not
\* exist, the host has just reaped the first child, which exited with 255.
C23_Witness ==
    /\ pc = "wait" /\ i = 2 /\ Len(kids) = 2
    /\ front(cmd).cmd_ = Missing
    /\ kids[front(cmd).pid_].state = "reaped"
    /\ kids[front(cmd).pid_].status = Exited(-1)
    /\ WEXITSTATUS(waitstatus) = Exited(-1).n

(***************************************************************************)
(* The posix_spawn revision (src/unnamed/part_005).  A process holds its   *)
(* three streams as shared pointers to descriptor objects; there, held is  *)
(* the heap of these objects and a slot holds an index into it.            *)
(***************************************************************************)
\* make_descriptor<T>(...): an object of class T; fd_ is -1 until open()
make_descriptor(T, fd, path, mode, link_to, var) ==
    [type |-> T, fd_ |-> fd, closed_ |-> FALSE, path_ |-> path, mode_ |-> mode,
     linked_fd_ |-> link_to, output_ |-> var]

\* ofile_descriptor(path, mode): file_descriptor{path, O_WRONLY | mode}
ofile_descriptor(path, mode) ==
    make_descriptor("ofile", -1, path, "O_WRONLY" \o mode, 0, "")

\* posix_process{cmd}: the three slots start at std_in(), std_out() and
\* std_err(), which are objects 1, 2 and 3 of the heap
spawn_process(c) ==
    [cmd_ |-> c, stdin_fd_ |-> 1, stdout_fd_ |-> 2, stderr_fd_ |-> 3, pid_ |-> 0]

\* cmd > output and cmd >= output: an ovariable_descriptor, whose member
\* input_pipe_ is the next object of the heap.
SpawnCapture ==
    /\ CanRedirect
    /\ \E s \in {"stdout_fd_", "stderr_fd_"}, v \in VarNames :
          LET id == Len(held) + 1
          IN  /\ held' = held \o
                     <<make_descriptor("ovariable", -1, NoPath, "", id + 1, v),
                       make_descriptor("ipipe", -1, NoPath, "", 0, "")>>
              /\ cmd' = [cmd EXCEPT !.processes[Len(cmd.processes)][s] = id]
              /\ op' = <<IF s = "stdout_fd_" THEN ">string" ELSE ">=string", "cmd">>
    /\ nops' = nops + 1
    /\ UNCHANGED <<other, strings, fdt, pipes, kids, pc, i, throwing, buf, output,
                   waitstatus, outcome, log>>

\* cmd >= subprocess::out and cmd > subprocess::err: posix_process::err(out_t)
\* and out(err_t) copy the shared pointer of the other slot.
SpawnTag ==
    /\ CanRedirect
    /\ \E tag \in {"out", "err"} :
          LET n == Len(cmd.processes)
          IN  /\ cmd' = IF tag = "out"
                        THEN [cmd EXCEPT !.processes[n].stderr_fd_ =
                                              cmd.processes[n].stdout_fd_]
                        ELSE [cmd EXCEPT !.processes[n].stdout_fd_ =
                                              cmd.processes[n].stderr_fd_]
              /\ op' = <<IF tag = "out" THEN ">=out" ELSE ">err", "cmd">>
    /\ nops' = nops + 1
    /\ UNCHANGED <<held, other, strings, fdt, pipes, kids, pc, i, throwing, buf,
                   output, waitstatus, outcome, log>>

\* operator<(command&, std::filesystem::path):
\* cmd < make_descriptor<ofile_descriptor>(file_name.string())
SpawnPathIn ==
    /\ CanRedirect
    /\ held' = Append(held, ofile_descriptor("path", ""))
    /\ cmd' = [cmd EXCEPT !.processes[1].stdin_fd_ = Len(held) + 1]
    /\ op' = <<"<path", "cmd">>
    /\ nops' = nops + 1
    /\ UNCHANGED <<other, strings, fdt, pipes, kids, pc, i, throwing, buf, output,
                   waitstatus, outcome, log>>

\* cmd | "c": create_pipe() makes an ipipe_descriptor and an
\* opipe_descriptor and links them; no pipe exists before open().
SpawnPipe(Cs, N) ==
    /\ pc = "build" /\ Len(cmd.processes) < N
    /\ \E c \in Cs :
          LET id == Len(held) + 1
              n  == Len(cmd.processes)
          IN  /\ held' = held \o
                     <<make_descriptor("ipipe", -1, NoPath, "", id + 1, ""),
                       make_descriptor("opipe", -1, NoPath, "", id, "")>>
              /\ cmd' = [processes |->
                           Append([cmd.processes EXCEPT ![n].stdout_fd_ = id + 1],
                                  [spawn_process(c) EXCEPT !.stdin_fd_ = id])]
    /\ op' = <<"|string", "cmd">>
    /\ UNCHANGED <<other, strings, fdt, pipes, kids, pc, i, throwing, buf, output,
                   waitstatus, outcome, log, nops>>

\* fd->open() on object id, in the state s = [heap, fdt, pipes]:
\* descriptor::open() does nothing, file_descriptor::open() calls ::open,
\* the two pipe classes call ::pipe unless fd() > 0 and set both ends.
descriptor_open(s, id) ==
    LET d == s.heap[id]
    IN  CASE d.type = "descriptor" -> s
          [] d.type = "ofile" ->
               LET fd == LowestFree(s.fdt)
               IN  [s EXCEPT !.heap[id].fd_ = fd,
                             !.fdt[fd] = Obj("file", 0, d.mode_)]
          [] OTHER ->
               IF d.fd_ > 0 THEN s
               ELSE LET p  == Len(s.pipes) + 1
                        r  == LowestFree(s.fdt)
                        t1 == [s.fdt EXCEPT ![r] = Obj("pipe_r", p, "")]
                        w  == LowestFree(t1)
                        t2 == [t1 EXCEPT ![w] = Obj("pipe_w", p, "")]
                        rd == IF d.type = "ipipe" THEN id ELSE d.linked_fd_
                        wr == IF d.type = "ipipe" THEN d.linked_fd_ ELSE id
                    IN  [heap  |-> [s.heap EXCEPT ![rd].fd_ = r, ![wr].fd_ = w],
                         fdt   |-> t2,
                         pipes |-> Append(s.pipes, <<>>)]

\* What the file actions make of the child's copy of the descriptor table,
\* in order: a dup2 from a descriptor that is not open fails the spawn, a
\* close of one is passed over.
RECURSIVE posix_spawnp(_, _)
posix_spawnp(actions, t) ==
    IF actions = <<>> THEN [ok |-> TRUE, fdt |-> t]
    ELSE LET a == Head(actions)
         IN  IF a[1] = "close" THEN posix_spawnp(Tail(actions), sys_close(t, a[2]))
             ELSE IF a[2] \in Fds /\ t[a[2]] # Closed
                  THEN posix_spawnp(Tail(actions), sys_dup2(t, a[2], a[3]))
                  ELSE [ok |-> FALSE, fdt |-> t]

\* posix_process::execute() up to pid_ = pid, for process i: each
\* dup_and_close() opens the descriptor and adds its file actions, a close
\* only for a closable() one.  A spawn that fails is reported by
\* posix_spawnp (os_error) or by a child that exits with 127.
SpawnExecute ==
    /\ pc = "execute"
    /\ LET file_actions(d, dup_to) ==
               <<<<"dup2", d.fd_, dup_to>>>>
                  \o (IF d.type # "descriptor" THEN <<<<"close", d.fd_>>>> ELSE <<>>)
           proc == cmd.processes[i]
           s1   == descriptor_open([heap |-> held, fdt |-> fdt, pipes |-> pipes],
                                   proc.stdin_fd_)
           s2   == descriptor_open(s1, proc.stdout_fd_)
           s3   == descriptor_open(s2, proc.stderr_fd_)
           acts == file_actions(s1.heap[proc.stdin_fd_], STDIN_FILENO)
                     \o file_actions(s2.heap[proc.stdout_fd_], STDOUT_FILENO)
                     \o file_actions(s3.heap[proc.stderr_fd_], STDERR_FILENO)
           r    == posix_spawnp(acts, s3.fdt)
           pid  == Len(kids) + 1
           kid  == [state |-> "running", fdt |-> r.fdt, proc |-> proc,
                    todo |-> FirstOutput(proc.cmd_), eof |-> ~ReadsInput(proc.cmd_),
                    wrote |-> <<>>, status |-> Running]
       IN  /\ held' = s3.heap /\ fdt' = s3.fdt /\ pipes' = s3.pipes
           /\ \/ /\ r.ok /\ Executable(proc.cmd_)
                 /\ kids' = Append(kids, kid)
                 /\ cmd' = [cmd EXCEPT !.processes[i].pid_ = pid]
                 /\ log' = Append(log, <<"execute", i>>)
                 /\ pc' = "close_stdin"
                 /\ UNCHANGED outcome
              \/ /\ ~(r.ok /\ Executable(proc.cmd_))
                 /\ kids' = Append(kids, Terminated(kid, Exited(127)))
                 /\ cmd' = [cmd EXCEPT !.processes[i].pid_ = pid]
                 /\ log' = Append(log, <<"execute", i>>)
                 /\ pc' = "close_stdin"
                 /\ UNCHANGED outcome
              \/ /\ ~(r.ok /\ Executable(proc.cmd_))
                 /\ outcome' = [kind |-> "os_error", code |-> 0]
                 /\ pc' = "done"
                 /\ UNCHANGED <<kids, cmd, log>>
    /\ UNCHANGED <<other, strings, i, throwing, buf, output, waitstatus, nops, op>>

\* The slot that the close() at pc is called on, and where execute() and
\* run() go on afterwards.
SlotAt(p) ==
    CASE p \in {"close_stdin"}                 -> "stdin_fd_"
      [] p \in {"close_stdout", "read_stdout"} -> "stdout_fd_"
      [] OTHER                                 -> "stderr_fd_"

AfterClose(p) ==
    CASE p = "close_stdin"                     -> "close_stdout"
      [] p \in {"close_stdout", "read_stdout"} -> "close_stderr"
      [] OTHER -> IF i < Len(cmd.processes) THEN "execute" ELSE "wait"

\* descriptor::close() (nothing), odescriptor::close() and
\* idescriptor::close() on object id
descriptor_close(heap, t, id) ==
    IF heap[id].type = "descriptor" THEN [heap |-> heap, fdt |-> t]
    ELSE [heap |-> [heap EXCEPT ![id].closed_ = TRUE],
          fdt  |-> IF heap[id].closed_ THEN t ELSE sys_close(t, heap[id].fd_)]

\* stdin_fd_->close(); stdout_fd_->close(); stderr_fd_->close(); one at a
\* time.  ovariable_descriptor::close() goes on to read().
SpawnClose ==
    /\ pc \in {"close_stdin", "close_stdout", "close_stderr"}
    /\ LET id == cmd.processes[i][SlotAt(pc)]
       IN  /\ held' = descriptor_close(held, fdt, id).heap
           /\ fdt' = descriptor_close(held, fdt, id).fdt
           /\ IF held[id].type = "ovariable"
              THEN /\ pc' = (IF pc = "close_stdout" THEN "read_stdout" ELSE "read_stderr")
                   /\ output' = <<>>
                   /\ log' = Append(log, <<"capture", StreamOf(pc')>>)
                   /\ UNCHANGED i
              ELSE /\ pc' = AfterClose(pc)
                   /\ i' = IF pc = "close_stderr"
                           THEN (IF i < Len(cmd.processes) THEN i + 1 ELSE 1)
                           ELSE i
                   /\ UNCHANGED <<output, log>>
    /\ UNCHANGED <<cmd, other, strings, pipes, kids, throwing, buf, waitstatus,
                   outcome, nops, op>>

\* output_ = input_pipe_.read(); input_pipe_.close(): one ::read() of
\* idescriptor::read()'s loop, which ends at end of file.
SpawnDrain ==
    /\ pc \in {"read_stdout", "read_stderr"}
    /\ LET d  == held[cmd.processes[i][SlotAt(pc)]]
           fd == held[d.linked_fd_].fd_
       IN  IF fd \in Fds /\ fdt[fd].kind = "pipe_r" /\ pipes[fdt[fd].id] # <<>>
           THEN LET id    == fdt[fd].id
                    n     == Min(Len(pipes[id]), BufSize)
                    chunk == SubSeq(pipes[id], 1, n)
                IN  /\ pipes' = [pipes EXCEPT ![id] = SubSeq(@, n + 1, Len(@))]
                    /\ buf' = Overlay(buf, chunk)
                    /\ output' = append(output, Overlay(buf, chunk))
                    /\ UNCHANGED <<held, fdt, strings, log, pc, i>>
           ELSE /\ ReadEnds(fd)
                /\ strings' = [strings EXCEPT ![d.output_] = output]
                /\ held' = descriptor_close(held, fdt, d.linked_fd_).heap
                /\ fdt' = descriptor_close(held, fdt, d.linked_fd_).fdt
                /\ log' = Append(log, <<"drained", StreamOf(pc)>>)
                /\ pc' = AfterClose(pc)
                /\ i' = IF pc = "read_stderr"
                        THEN (IF i < Len(cmd.processes) THEN i + 1 ELSE 1)
                        ELSE i
                /\ UNCHANGED <<pipes, buf, output>>
    /\ UNCHANGED <<cmd, other, kids, throwing, waitstatus, outcome, nops, op>>

\* One process to start from, then any of the operators, then run().
SpawnCmds == {Cmd("printf", <<1>>), Cmd("printf >&2", [k \in 1 .. MaxOut |-> 1]),
              Cat, Missing}

InitSpawn ==
    /\ cmd \in {[processes |-> <<spawn_process(c)>>] : c \in SpawnCmds}
    /\ held = [k \in 1 .. 3 |-> make_descriptor("descriptor", k - 1, NoPath, "", 0, "")]
    /\ other = NoCommand
    /\ strings = [v \in VarNames \cup {"input"} |-> Junk]
    /\ fdt \in HostTables
    /\ pipes = <<>>
    /\ kids = <<>>
    /\ pc = "build"
    /\ i = 0
    /\ throwing = FALSE
    /\ buf = <<>>
    /\ output = <<>>
    /\ waitstatus = -1
    /\ outcome = NoOutcome
    /\ log = <<>>
    /\ nops = 0
    /\ op = <<"command", "cmd">>

NextSpawn ==
    \/ SpawnCapture \/ SpawnTag \/ SpawnPathIn \/ SpawnPipe(SpawnCmds, MaxProcs)
    \/ Run
    \/ SpawnExecute \/ SpawnClose \/ SpawnDrain \/ Wait \/ Return
    \/ ChildWrite \/ ChildRead \/ ChildExit

SpecSpawn == InitSpawn /\ [][NextSpawn]_vars

\* C24: in the posix_spawn revision, when a process's stdout and stderr
\* slots hold the same capture (cmd > buf >= out, or cmd >= buf > err),
\* execute() spawns the child, the child's streams 1 and 2 are both the
\* write end of the capture's pipe, and once run() has returned the buffer
\* holds what the child wrote.
C24_BothStreamsCaptured ==
    \A j \in DOMAIN cmd.processes :
       LET p == cmd.processes[j]
           d == held[p.stdout_fd_]
       IN  (p.stdout_fd_ = p.stderr_fd_ /\ d.type = "ovariable" /\ d.fd_ # -1)
             => /\ outcome.kind # "os_error"
                /\ p.pid_ # 0
                /\ kids[p.pid_].status # Exited(127)
                /\ kids[p.pid_].state = "running"
                     => /\ kids[p.pid_].fdt[STDOUT_FILENO].kind = "pipe_w"
                        /\ kids[p.pid_].fdt[STDERR_FILENO] =
                               kids[p.pid_].fdt[STDOUT_FILENO]
                /\ (pc = "done" /\ outcome.kind = "returned")
                     => strings[d.output_] = kids[p.pid_].wrote

\* C25: in the posix_spawn revision, cmd < path puts into the first
\* process's stdin slot a descriptor of that path whose open mode is
\* read-only, and the child's stdin is the path opened read-only.
C25_InputPathReadOnly ==
    /\ \A j \in DOMAIN cmd.processes :
          LET d == held[cmd.processes[j].stdin_fd_]
          IN  d.path_ # NoPath => j = 1 /\ d.path_ = "path" /\ d.mode_ = ReadFlags
    /\ \A k \in DOMAIN kids :
          kids[k].fdt[STDIN_FILENO].kind = "file"
             => kids[k].fdt[STDIN_FILENO].mode = ReadFlags

C28_PipeEndsExclusive ==
    (pc \in {"capture_stdout", "read_stdout", "capture_stderr", "read_stderr",
             "wait", "return", "done"}
       /\ outcome.kind # "os_error" /\ Len(kids) = n_processes)
      => /\ \A fd \in Fds :
               /\ fdt[fd].kind # "pipe_w"
               /\ fdt[fd].kind = "pipe_r"
                    => \E cap \in {cmd.captured_stdout, cmd.captured_stderr} :
                          cap.has /\ cap.first.fd_ = fd
         /\ \A k \in DOMAIN kids : \A fd \in Fds :
               (kids[k].state = "running"
                  /\ kids[k].fdt[fd].kind \in {"pipe_r", "pipe_w"})
                 => /\ fd <= STDERR_FILENO
                    /\ fd = STDIN_FILENO <=> kids[k].fdt[fd].kind = "pipe_r"

\* C29: the linked_fd_ of every pipe end held in a stream slot or in a
\* capture binding of the command designates one of these live descriptor
\* objects, that object holds the other end of the same pipe, and its own
\* linked_fd_ designates the first one.
C29_LinkedIsLive ==
    LET Slots == {"stdin_fd", "stdout_fd", "stderr_fd"}
        Live  == {[name |-> "processes[" \o ToString(j) \o "]." \o s,
                   d    |-> cmd.processes[j][s]] :
                     j \in DOMAIN cmd.processes, s \in Slots}
                 \cup {[name |-> c \o ".first", d |-> cmd[c].first] :
                          c \in {x \in {"captured_stdout", "captured_stderr"} : cmd[x].has}}
        OtherEnd(a, b) ==
            /\ fdt[a.fd_].kind \in {"pipe_r", "pipe_w"}
            /\ fdt[b.fd_].kind \in {"pipe_r", "pipe_w"} \ {fdt[a.fd_].kind}
            /\ fdt[b.fd_].id = fdt[a.fd_].id
    IN  pc = "build" =>
          \A x \in Live :
             linked(x.d) => \E y \in Live : /\ x.d.linked_fd_ = y.name
                                            /\ y.d.linked_fd_ = x.name
                                            /\ OtherEnd(x.d, y.d)

\* C30: in the posix_spawn revision, no capture is read (drained) before
\* execute() has spawned every process of the pipeline.
C30_DrainAfterAllSpawned ==
    \A k \in DOMAIN log :
       log[k][1] \in {"capture", "drained"}
          => {log[m][2] : m \in {x \in 1 .. k - 1 : log[x][1] = "execute"}}
                = DOMAIN cmd.processes

\* C31: while the command is built, the read end of a pending stdout
\* binding and the last process's stdout are the two ends of one pipe, and
\* so are the read end of a pending stderr binding and the last process's
\* stderr.
C31_BindingsMatchWiring ==
    LET Ends(cap, slot) ==
            /\ cap.first.fd_ \in Fds /\ slot.fd_ \in Fds
            /\ fdt[cap.first.fd_].kind = "pipe_r"
            /\ fdt[slot.fd_] = Obj("pipe_w", fdt[cap.first.fd_].id, "")
    IN  pc = "build" =>
          /\ cmd.captured_stdout.has => Ends(cmd.captured_stdout, back(cmd).stdout_fd)
          /\ cmd.captured_stderr.has => Ends(cmd.captured_stderr, back(cmd).stderr_fd)

\* C32: run() on a single command whose program exists and writes less
\* than a pipe holds, with whatever captures were put on it, never gets
\* stuck: until it has come back the host or the child can take a step.
C32_SingleCommandReturns ==
    (/\ n_processes = 1 /\ Executable(front(cmd).cmd_)
     /\ Len(FirstOutput(front(cmd).cmd_)) < PipeCap
     /\ pc \notin {"build", "blocked", "done"})
       => ENABLED (Host \/ Children)

\* C33: when run() has returned, the host holds no end of any pipe.
C33_PipesClosedAfterRun ==
    (pc = "done" /\ outcome.kind = "returned")
       => \A fd \in Fds : fdt[fd].kind \notin {"pipe_r", "pipe_w"}

\* C34: when run() or run(std::nothrow) has come back, by returning, by
\* command_error or by the os_error of a stage that could not be spawned,
\* every child spawned has been waited on.
C34_NoChildLeftBehind ==
    (pc = "done" /\ outcome.kind \in {"returned", "command_error", "os_error"})
       => \A k \in DOMAIN kids : kids[k].state = "reaped"

\* C35: a step that chains cmd | B leaves a pending stderr binding of cmd
\* as it was.
C35_ChainKeepsStderrBinding ==
    [][(/\ op'[1] = "|" /\ op'[2] = "cmd"
        /\ Len(cmd'.processes) > Len(cmd.processes)
        /\ cmd.captured_stderr.has)
          => cmd'.captured_stderr = cmd.captured_stderr]_vars


\* C36: in the posix_spawn revision a single-stage pipeline whose stdout and
\* stderr are both captured into buffers completes run() whatever the child
\* writes: once the child is spawned and until run() has ended, the host
\* or the child can always take a step, also when the child writes more
\* than the pipe capacity to stderr before it closes stdout.
C36_BothCapturesComplete ==
    LET p == front(cmd)
    IN  (/\ n_processes = 1 /\ Executable(p.cmd_)
         /\ p.stdout_fd_ \in DOMAIN held /\ p.stderr_fd_ \in DOMAIN held
         /\ held[p.stdout_fd_].type = "ovariable"
         /\ held[p.stderr_fd_].type = "ovariable"
         /\ p.stdout_fd_ # p.stderr_fd_
         /\ kids # <<>> /\ pc # "done")
           => ENABLED (\/ SpawnClose \/ SpawnDrain \/ Wait \/ Return
                       \/ ChildWrite \/ ChildRead \/ ChildExit)


\* C37: when the last stage was ended by a signal, run(std::nothrow)
\* returns 0 and run() returns without raising command_error: the exit byte
\* of such a wait status is 0 and nothing tests whether the child exited.
C37_SignalReportedAsSuccess ==
    (/\ pc = "done" /\ outcome.kind \in {"returned", "command_error"}
     /\ LastKid.status.how = "signal")
        => /\ outcome = [kind |-> "returned", code |-> 0]
           /\ waitstatus = LastKid.status.n

\* C37 witness: run() has returned normally although the last child was
\* killed by a signal.
C37_Witness ==
    /\ pc = "done" /\ throwing
    /\ outcome = [kind |-> "returned", code |-> 0]
    /\ LastKid.status.how = "signal"

=============================================================================
